---- MODULE Spec2Model ----
(***************************************************************************)
(* Transfer-matrix engine of src/TMM_1dim.py (class PhotonicCrystal1d).    *)
(*                                                                         *)
(* Arithmetic is exact.  The floating-point numbers of the program are     *)
(* modelled by Gaussian rationals (re + i*im)/den, kept in lowest terms.   *)
(* Units are chosen so that every value the program computes from the      *)
(* modelled inputs is such a number:                                       *)
(*   - impedances are in units of sqrt(Mu0/Eps0); relative permittivities  *)
(*     and permeabilities are perfect squares, so sqrt(mur/epsr) is        *)
(*     rational;                                                           *)
(*   - lengths are in units of L0 and angular frequencies in units of      *)
(*     pi / (2 * L0 * sqrt(Eps0*Mu0)), so that k*d is a whole number of    *)
(*     quarter turns and exp(1j*k*d) is a power of i.                      *)
(***************************************************************************)
EXTENDS Integers, Sequences, FiniteSets, TLC

\* ---------------------------------------------------------------- bounds
MaxN == 3
MaxRoot == 2
MaxOmega == 2

LayerCounts == 1..MaxN
Thicknesses == {1, 2}
PermValues == {k * k : k \in 1..MaxRoot}
MuValues == {1, 4}
Omegas == 1..MaxOmega

\* ------------------------------------------------------- Python's None
None == <<>>
Some(x) == <<x>>
Val(o) == o[1]

\* ------------------------------------------------------ exact numbers
Abs(x) == IF x < 0 THEN -x ELSE x

RECURSIVE GCD(_, _)
GCD(a, b) == IF b = 0 THEN a ELSE IF b = 1 THEN 1 ELSE GCD(b, a % b)

\* (re + i*im)/den in lowest terms with den > 0
Cx(re, im, den) ==
    LET g == GCD(GCD(Abs(re), Abs(im)), Abs(den))
        s == IF den < 0 THEN -1 ELSE 1
    IN [re |-> (s * re) \div g, im |-> (s * im) \div g, den |-> Abs(den) \div g]

Rat(num, den) == Cx(num, 0, den)
Zero == Rat(0, 1)
One == Rat(1, 1)
Half == Rat(1, 2)

\* numpy's result of a division by zero (nan or inf, with a warning, no exception)
NaN == [re |-> 0, im |-> 0, den |-> 0]

CAdd(a, b) ==
    IF a.den = 0 \/ b.den = 0 THEN NaN
    ELSE IF a.re = 0 /\ a.im = 0 THEN b
    ELSE IF b.re = 0 /\ b.im = 0 THEN a
    ELSE IF a.den = b.den THEN Cx(a.re + b.re, a.im + b.im, a.den)
    ELSE LET g == GCD(a.den, b.den)
             fa == b.den \div g
             fb == a.den \div g
         IN Cx(a.re * fa + b.re * fb, a.im * fa + b.im * fb, a.den * fa)
CNeg(a) == [re |-> -a.re, im |-> -a.im, den |-> a.den]
CSub(a, b) == CAdd(a, CNeg(b))
CMul(a, b) ==
    IF a.den = 0 \/ b.den = 0 THEN NaN
    ELSE IF (a.re = 0 /\ a.im = 0) \/ (b.re = 0 /\ b.im = 0) THEN [re |-> 0, im |-> 0, den |-> 1]
    ELSE Cx(a.re * b.re - a.im * b.im, a.re * b.im + a.im * b.re, a.den * b.den)
IsZero(a) == a.den # 0 /\ a.re = 0 /\ a.im = 0
\* a / b: the common factors of the two numerators and of the two denominators
\* are cancelled before multiplying by the conjugate of b
CDiv(a, b) ==
    IF a = NaN \/ b = NaN \/ IsZero(b) THEN NaN
    ELSE LET gd == GCD(a.den, b.den)
             gn == GCD(GCD(Abs(a.re), Abs(a.im)), GCD(Abs(b.re), Abs(b.im)))
             ar == a.re \div gn
             ai == a.im \div gn
             br == b.re \div gn
             bi == b.im \div gn
             ad == a.den \div gd
             bd == b.den \div gd
         IN Cx((ar * br + ai * bi) * bd, (ai * br - ar * bi) * bd,
               (br * br + bi * bi) * ad)
\* |a|^2
CAbs2(a) == IF a = NaN THEN NaN ELSE Rat(a.re * a.re + a.im * a.im, a.den * a.den)

\* np.sqrt on a rational whose numerator and denominator are perfect squares
ISqrt(n) == CHOOSE r \in 0..n : r * r = n
RSqrt(q) == Rat(ISqrt(q.re), ISqrt(q.den))

\* np.exp(1j * m * pi/2) for a whole number m of quarter turns
CExpI(m) ==
    CASE m % 4 = 0 -> Cx(1, 0, 1)
      [] m % 4 = 1 -> Cx(0, 1, 1)
      [] m % 4 = 2 -> Cx(-1, 0, 1)
      [] OTHER     -> Cx(0, -1, 1)

\* 2x2 matrices <<<<a, b>>, <<c, d>>>> and numpy's A @ B
MatEntry(A, B, i, j) == CAdd(CMul(A[i][1], B[1][j]), CMul(A[i][2], B[2][j]))
MatMul(A, B) ==
    <<<<MatEntry(A, B, 1, 1), MatEntry(A, B, 1, 2)>>,
      <<MatEntry(A, B, 2, 1), MatEntry(A, B, 2, 2)>>>>

\* dict[key] = value
Put(d, key, value) ==
    [x \in (DOMAIN d) \cup {key} |-> IF x = key THEN value ELSE d[x]]
EmptyDict == [x \in {} |-> Zero]

\* ------------------------------------------------ PhotonicCrystal1d state
VARIABLES
    N, d1, d2, epsr1, epsr2, mur1, mur2,   \* constructor arguments
    Z1, Z2,                                \* wave impedances of the two materials
    last,                                  \* type of the last layer, or None
    periods,                               \* N // 2 for even N, else None
    transferMatrices,                      \* dict: interface key -> 2x2 matrix
    propagationMatrices,                   \* dict: layer key -> 2x2 matrix
    envEpsr, envMur, omega,                \* None until set
    call,                                  \* the most recent call and its arguments
    repeated,                              \* that call repeats the call before it
    replaced,                              \* that call was a setup call that changed
                                           \* the value an earlier one had stored
    ret,                                   \* what the most recent call returned or raised
    walk,                                  \* locals of the most recent cascade walk
    envCalled, freqCalled                  \* history: the setup call has been made

self == <<N, d1, d2, epsr1, epsr2, mur1, mur2, Z1, Z2, last, periods,
          transferMatrices, propagationMatrices, envEpsr, envMur, omega>>
vars == <<N, d1, d2, epsr1, epsr2, mur1, mur2, Z1, Z2, last, periods,
          transferMatrices, propagationMatrices, envEpsr, envMur, omega,
          call, repeated, replaced, ret, walk, envCalled, freqCalled>>

TransferKeys == {"env2one", "one2two", "two2one", "last2env"}
PropagationKeys == {"one", "two"}

Returned(value) == [kind |-> "ok", value |-> value]
Raised(kind) == [kind |-> kind, value |-> None]
NoWalk == [flag |-> None, iterations |-> None, factors |-> <<>>, r |-> None]

\* np.sqrt((Mu0*mur)/(Eps0*epsr)), in units of sqrt(Mu0/Eps0)
Impedance(mur, epsr) == RSqrt(Rat(mur, epsr))

\* faulty variant: the diagonal and off-diagonal entries exchanged
TransferMatrix_swapped(delta) ==
    <<<<CMul(Half, CSub(One, delta)), CMul(Half, CAdd(One, delta))>>,
      <<CMul(Half, CAdd(One, delta)), CMul(Half, CSub(One, delta))>>>>

\* .5 * np.array([[1 + delta, 1 - delta], [1 - delta, 1 + delta]])
TransferMatrix(delta) ==
    <<<<CMul(Half, CAdd(One, delta)), CMul(Half, CSub(One, delta))>>,
      <<CMul(Half, CSub(One, delta)), CMul(Half, CAdd(One, delta))>>>>

\* omega * np.sqrt(Eps0 * Mu0 * epsr * mur), in quarter turns per unit length
Wavenumber(w, epsr, mur) == w * ISqrt(epsr * mur)

\* np.array([[np.exp(1j*k*d), 0], [0, np.exp(-1j*k*d)]])
PropagationMatrix(k, d) ==
    <<<<CExpI(k * d), Zero>>, <<Zero, CExpI(-(k * d))>>>>

\* faulty variant: the two branches of the parity test exchanged
LastOf_swapped(n) == IF n % 2 = 0 THEN 1 ELSE 2

\* N % 2 == 0 -> 2, else 1 (the branch of calculateTransferMatrices)
LastOf(n) == IF n % 2 = 0 THEN 2 ELSE 1

\* __init__(N, d1, d2, epsr1, epsr2, mur1, mur2)
Init ==
    /\ N \in LayerCounts
    /\ d1 \in Thicknesses
    /\ d2 \in Thicknesses
    /\ epsr1 \in PermValues
    /\ epsr2 \in PermValues
    /\ mur1 \in MuValues
    /\ mur2 \in MuValues
    /\ Z1 = Impedance(mur1, epsr1)
    /\ Z2 = Impedance(mur2, epsr2)
    /\ last = None
    /\ periods = IF N % 2 = 0 THEN Some(N \div 2) ELSE None
    /\ transferMatrices = EmptyDict
    /\ propagationMatrices = EmptyDict
    /\ envEpsr = None
    /\ envMur = None
    /\ omega = None
    /\ call = [op |-> "create", args |-> <<N, d1, d2, epsr1, epsr2, mur1, mur2>>]
    /\ repeated = FALSE
    /\ replaced = FALSE
    /\ ret = Returned(None)
    /\ walk = NoWalk
    /\ envCalled = FALSE
    /\ freqCalled = FALSE

\* faulty variant: the ratio of the closing interface taken the other way round
Last2EnvDelta_inverted(envZ) ==
    IF N % 2 = 0 THEN CDiv(Z2, envZ) ELSE CDiv(Z1, envZ)

\* the "last2env" entry: delta = envZ / Z2 for even N, envZ / Z1 for odd N
Last2EnvDelta(envZ) ==
    IF N % 2 = 0 THEN CDiv(envZ, Z2) ELSE CDiv(envZ, Z1)

\* faulty variant: entries are stored setdefault-style, so a key already present keeps
\* the matrix of the earlier call
StoreTransferMatrices_keep(table, envZ) ==
    LET Keep(t, key, value) == IF key \in DOMAIN t THEN t ELSE Put(t, key, value)
        t1 == Keep(table, "env2one", TransferMatrix(CDiv(Z1, envZ)))
        t2 == Keep(t1, "one2two", TransferMatrix(CDiv(Z2, Z1)))
        t3 == Keep(t2, "two2one", TransferMatrix(CDiv(Z1, Z2)))
    IN Keep(t3, "last2env",
            TransferMatrix(IF N % 2 = 0 THEN CDiv(envZ, Z2) ELSE CDiv(envZ, Z1)))

\* the table after calculateTransferMatrices has stored its four entries
StoreTransferMatrices(table, envZ) ==
    LET t1 == Put(table, "env2one", TransferMatrix(CDiv(Z1, envZ)))
        t2 == Put(t1, "one2two", TransferMatrix(CDiv(Z2, Z1)))
        t3 == Put(t2, "two2one", TransferMatrix(CDiv(Z1, Z2)))
    IN Put(t3, "last2env", TransferMatrix(Last2EnvDelta(envZ)))

\* faulty variant: the new phase is accumulated onto the matrix already stored
StorePropagationMatrices_accumulate(table, w) ==
    LET k1 == w * ISqrt(epsr1 * mur1)
        k2 == w * ISqrt(epsr2 * mur2)
        Acc(t, key, M) == Put(t, key, IF key \in DOMAIN t THEN MatMul(t[key], M) ELSE M)
    IN Acc(Acc(table, "one", PropagationMatrix(k1, d1)),
           "two", PropagationMatrix(k2, d2))

\* the table after calculatePropagationMatrices has stored its two entries
StorePropagationMatrices(table, w) ==
    LET k1 == Wavenumber(w, epsr1, mur1)
        k2 == Wavenumber(w, epsr2, mur2)
        p1 == Put(table, "one", PropagationMatrix(k1, d1))
    IN Put(p1, "two", PropagationMatrix(k2, d2))

Record(op, args) ==
    /\ call' = [op |-> op, args |-> args]
    /\ repeated' = (call.op = op /\ call.args = args)

calculateTransferMatrices(e, m) ==
    /\ envEpsr' = Some(e)
    /\ envMur' = Some(m)
    /\ transferMatrices' = StoreTransferMatrices(transferMatrices, Impedance(m, e))
    /\ last' = Some(LastOf(N))
    /\ Record("setEnvironment", <<e, m>>)
    /\ replaced' = (envEpsr # None /\ <<envEpsr, envMur>> # <<Some(e), Some(m)>>)
    /\ ret' = Returned(None)
    /\ walk' = NoWalk
    /\ envCalled' = TRUE
    /\ UNCHANGED <<N, d1, d2, epsr1, epsr2, mur1, mur2, Z1, Z2, periods,
                   propagationMatrices, omega, freqCalled>>

calculatePropagationMatrices(w) ==
    /\ omega' = Some(w)
    /\ propagationMatrices' = StorePropagationMatrices(propagationMatrices, w)
    /\ Record("setFrequency", <<w>>)
    /\ replaced' = (omega # None /\ omega # Some(w))
    /\ ret' = Returned(None)
    /\ walk' = NoWalk
    /\ freqCalled' = TRUE
    /\ UNCHANGED <<N, d1, d2, epsr1, epsr2, mur1, mur2, Z1, Z2, periods, last,
                   transferMatrices, envEpsr, envMur, envCalled>>

\* faulty variant: the starting flag taken as the layer type itself
StartFlag_offbyone(lastType) == lastType % 2

\* flag = self.last-1
StartFlag(lastType) == lastType - 1

\* flag = (flag+1)%2
FlipFlag(flag) == (flag + 1) % 2

\* faulty variant: each layer type crosses with the other type's interface matrix
LoopFactors_swapped(flag) ==
    IF flag = 0 THEN <<"one", "one2two">> ELSE <<"two", "two2one">>

\* one pass of the loop body for the current flag: the two keys whose matrices
\* are right-multiplied into Q, propagation first
LoopFactors(flag) ==
    IF flag = 0 THEN <<"one", "two2one">> ELSE <<"two", "one2two">>

\* for layer in range(self.N-1): ...; yields the locals when the loop ends, or
\* when a dict lookup in its body raises KeyError
RECURSIVE CascadeLoop(_, _, _, _)
CascadeLoop(layer, flag, Q, factors) ==
    IF layer >= N - 1
    THEN [error |-> None, flag |-> flag, Q |-> Q, factors |-> factors,
          iterations |-> layer]
    ELSE LET f == LoopFactors(flag)
         IN IF f[1] \notin DOMAIN propagationMatrices
               \/ f[2] \notin DOMAIN transferMatrices
            THEN [error |-> Some("KeyError"), flag |-> flag, Q |-> Q,
                  factors |-> factors, iterations |-> layer]
            ELSE CascadeLoop(layer + 1, FlipFlag(flag),
                     MatMul(MatMul(Q, propagationMatrices[f[1]]),
                            transferMatrices[f[2]]),
                     factors \o f)

\* faulty variant: the numerator read from the wrong row
ReflectionAmplitude_row(Q) == CDiv(CNeg(Q[1][1]), Q[2][2])

\* r = -Q[1, 0]/Q[1, 1]
ReflectionAmplitude(Q) == CDiv(CNeg(Q[2][1]), Q[2][2])

\* t = Q[0, 0] - (Q[0, 1]*Q[1, 0])/(Q[1, 1])
TransmissionAmplitude(Q) == CSub(Q[1][1], CDiv(CMul(Q[1][2], Q[2][1]), Q[2][2]))

\* R = abs(r) ** 2
Reflectance(r) == CAbs2(r)

\* T = 1 - R
Transmittance(R) == CSub(One, R)

\* faulty variant: the products are accumulated in place (Q @= M), into the stored array
TableAfterCascade_inplace(Q) == [transferMatrices EXCEPT !["last2env"] = Q]

\* Q names the stored "last2env" array and every later "Q = Q @ M" binds Q to a
\* new array, so the stored table is what it was
TableAfterCascade(Q) == transferMatrices

\* the call ends by raising `kind` with the locals it had
Failed(kind, flag, iterations, factors, Q) ==
    [ret |-> Raised(kind),
     walk |-> [flag |-> flag, iterations |-> iterations, factors |-> factors,
               r |-> None],
     table |-> IF Q = None THEN transferMatrices ELSE TableAfterCascade(Val(Q))]

\* faulty variant: the check fails only when both are unset
Uninitialized_and == envEpsr = None /\ omega = None

\* the condition of "raise ValueError": self.envEpsr is None or self.omega is None
Uninitialized == envEpsr = None \/ omega = None

\* simulate_rt once the parameter check has passed: the lookups, the loop, the
\* assertion, the two closing factors and the extraction of the result
Cascade(RT) ==
    IF "last2env" \notin DOMAIN transferMatrices
    THEN Failed("KeyError", None, None, <<>>, None)
    ELSE IF last = None
    THEN Failed("TypeError", None, None, <<"last2env">>,
                Some(transferMatrices["last2env"]))
    ELSE
    LET loop == CascadeLoop(0, StartFlag(Val(last)), transferMatrices["last2env"],
                            <<"last2env">>)
    IN  IF loop.error # None
        THEN Failed(Val(loop.error), Some(loop.flag), Some(loop.iterations),
                    loop.factors, Some(loop.Q))
        ELSE IF loop.flag # 0
        THEN Failed("AssertionError", Some(loop.flag), Some(loop.iterations),
                    loop.factors, Some(loop.Q))
        ELSE IF "one" \notin DOMAIN propagationMatrices
                \/ "env2one" \notin DOMAIN transferMatrices
        THEN Failed("KeyError", Some(loop.flag), Some(loop.iterations),
                    loop.factors, Some(loop.Q))
        ELSE
        LET Q == MatMul(MatMul(loop.Q, propagationMatrices["one"]),
                        transferMatrices["env2one"])
            r == ReflectionAmplitude(Q)
            t == TransmissionAmplitude(Q)
            R == Reflectance(r)
        IN [ret |-> IF RT THEN Returned(<<R, Transmittance(R)>>)
                    ELSE Returned(<<r, t>>),
            walk |-> [flag |-> Some(loop.flag),
                      iterations |-> Some(loop.iterations),
                      factors |-> loop.factors \o <<"one", "env2one">>,
                      r |-> Some(r)],
            table |-> TableAfterCascade(Q)]

simulate_rt(RT) ==
    /\ Record("simulate", <<RT>>)
    /\ replaced' = FALSE
    /\ IF Uninitialized
       THEN /\ ret' = Raised("ValueError")
            /\ walk' = NoWalk
            /\ UNCHANGED transferMatrices
       ELSE \E c \in {Cascade(RT)} :
               /\ ret' = c.ret
               /\ walk' = c.walk
               /\ transferMatrices' = c.table
    /\ UNCHANGED <<N, d1, d2, epsr1, epsr2, mur1, mur2, Z1, Z2, periods, last,
                   propagationMatrices, envEpsr, envMur, omega,
                   envCalled, freqCalled>>

Next ==
    \/ \E e \in PermValues, m \in MuValues : calculateTransferMatrices(e, m)
    \/ \E w \in Omegas : calculatePropagationMatrices(w)
    \/ \E RT \in BOOLEAN : simulate_rt(RT)

Spec == Init /\ [][Next]_vars

\* ------------------------------------------------------------- claims
Parity(n) == IF n % 2 = 0 THEN 2 ELSE 1
IsSimulate == call.op = "simulate"
WantsPower == call.args = <<TRUE>>

\* C1: simulate raises the Uninitialized-State error (ValueError), returning no
\* value, exactly when setEnvironment or setFrequency has never been called;
\* once both have been called it does not raise that error.
C1_UninitializedState ==
    IsSimulate =>
        /\ (ret.kind = "ValueError") <=> ~(envCalled /\ freqCalled)
        /\ ret.kind = "ValueError" => ret.value = None
        /\ (envCalled /\ freqCalled) => ret.kind = "ok"

\* a simulate call made after setEnvironment alone has raised the error
C1_Witness ==
    IsSimulate /\ envCalled /\ ~freqCalled /\ ret.kind = "ValueError"

\* C2: for every lossless configuration and every frequency, simulate with
\* returnPower = true returns real (R, T) with 0 <= R <= 1, 0 <= T <= 1,
\* R + T = 1, R = |r|^2 and T = 1 - R.
C2_EnergyConservation ==
    (IsSimulate /\ WantsPower /\ envCalled /\ freqCalled) =>
        /\ ret.kind = "ok"
        /\ LET R == ret.value[1]
               T == ret.value[2]
               r == Val(walk.r)
           IN /\ R # NaN /\ T # NaN
              /\ R.im = 0 /\ T.im = 0
              /\ 0 <= R.re /\ R.re <= R.den
              /\ 0 <= T.re /\ T.re <= T.den
              /\ CAdd(R, T) = One
              /\ R = Rat(r.re * r.re + r.im * r.im, r.den * r.den)

\* a power result strictly between total reflection and total transmission
C2_Witness ==
    /\ IsSimulate /\ WantsPower /\ ret.kind = "ok"
    /\ 0 < ret.value[1].re /\ ret.value[1].re < ret.value[1].den
    /\ N = MaxN

\* C3: once environment and frequency are set, the cascade walk ends with flag 0
\* for every layer count, the assertion is never raised, and last is 2 for even
\* N and 1 for odd N.
C3_ParityWalk ==
    /\ (envCalled /\ freqCalled) => last = Some(Parity(N))
    /\ (IsSimulate /\ envCalled /\ freqCalled) =>
          /\ walk.flag = Some(0)
          /\ ret.kind # "AssertionError"

\* a completed walk over an even stack whose loop has run
C3_Witness ==
    IsSimulate /\ ret.kind = "ok" /\ N = 2 /\ last = Some(2) /\ walk.flag = Some(0)

\* C4: a setup call that repeats the call before it (same operation, same
\* values) leaves every stored field as the first call left it; simulate reads
\* nothing else, so a following simulate gives the same result.
C4_SetupIdempotent ==
    [][(repeated' /\ call'.op \in {"setEnvironment", "setFrequency"}) =>
          self' = self]_vars

\* setEnvironment has just been called twice in a row with the same values on a
\* model whose frequency is set
C4_Witness ==
    repeated /\ call.op = "setEnvironment" /\ freqCalled

\* C5: a simulate call, successful or failing, changes no stored field, and a
\* simulate call that follows another with no setup call between returns the
\* same result.
C5_SimulatePure ==
    [][call'.op = "simulate" =>
          /\ self' = self
          /\ (call.op = "simulate" /\ call.args = call'.args) => ret' = ret]_vars

\* two successful simulate calls in a row on a single-layer stack
C5_Witness ==
    repeated /\ IsSimulate /\ ret.kind = "ok" /\ N = 1

Identity == <<<<One, Zero>>, <<Zero, One>>>>
Matched ==
    /\ epsr1 = 1 /\ mur1 = 1 /\ epsr2 = 1 /\ mur2 = 1
    /\ envEpsr = Some(1) /\ envMur = Some(1)

\* C6: with both materials and the environment matched (all relative constants
\* 1), every interface matrix is the identity and simulate returns r = 0,
\* R = 0 and T = 1 for every layer count and frequency.
C6_TrivialStack ==
    /\ Matched => \A key \in TransferKeys : transferMatrices[key] = Identity
    /\ (Matched /\ IsSimulate /\ freqCalled) =>
          /\ ret.kind = "ok"
          /\ walk.r = Some(Zero)
          /\ IF WantsPower THEN ret.value = <<Zero, One>>
             ELSE ret.value[1] = Zero

\* the amplitudes of a matched stack of several layers have been computed
C6_Witness ==
    Matched /\ IsSimulate /\ ~WantsPower /\ ret.kind = "ok" /\ N = MaxN

\* C7: the factors right-multiplied into Q are last2env, then for layer
\* j = N down to 2 the propagation matrix of layer j's type followed by two2one
\* (after type 1) or one2two (after type 2), then the type-1 propagation matrix
\* and env2one; the loop runs N - 1 times and there are 2N + 1 factors, N of
\* them propagation factors.
C7_CascadeOrder ==
    LET Prop(j) == IF j % 2 = 1 THEN "one" ELSE "two"
        Cross(j) == IF j % 2 = 1 THEN "two2one" ELSE "one2two"
        Expected == [i \in 1..(2 * N + 1) |->
                        IF i = 1 THEN "last2env"
                        ELSE IF i = 2 * N + 1 THEN "env2one"
                        ELSE IF i % 2 = 0 THEN Prop(N + 1 - (i \div 2))
                        ELSE Cross(N + 1 - (i \div 2))]
    IN (IsSimulate /\ envCalled /\ freqCalled) =>
          /\ walk.factors = Expected
          /\ Len(walk.factors) = 2 * N + 1
          /\ walk.iterations = Some(N - 1)
          /\ Cardinality({i \in DOMAIN walk.factors :
                             walk.factors[i] \in PropagationKeys}) = N

\* a walk over three layers: the loop has run for a type-1 and a type-2 layer
C7_Witness ==
    /\ IsSimulate /\ ret.kind = "ok" /\ N = 3
    /\ walk.factors = <<"last2env", "one", "two2one", "two", "one2two",
                        "one", "env2one">>

\* the two sides of each interface, as its key names them
FromSide == [env2one |-> "env", one2two |-> "one", two2one |-> "two",
             last2env |-> "last"]
ToSide == [env2one |-> "one", one2two |-> "two", two2one |-> "one",
           last2env |-> "env"]
SideZ(side) ==
    CASE side = "env" -> Impedance(Val(envMur), Val(envEpsr))
      [] side = "one" -> Z1
      [] side = "two" -> Z2
      [] OTHER        -> IF N % 2 = 0 THEN Z2 ELSE Z1
HasForm(M, d) ==
    /\ M[1][1] = CMul(Half, CAdd(One, d)) /\ M[1][2] = CMul(Half, CSub(One, d))
    /\ M[2][1] = CMul(Half, CSub(One, d)) /\ M[2][2] = CMul(Half, CAdd(One, d))

\* C8 as stated: every interface matrix is 0.5*[[1+d, 1-d],[1-d, 1+d]] with
\* d = (impedance of the key's 'from' side) / (impedance of its 'to' side).
C8_FromOverTo ==
    envCalled =>
        \A key \in TransferKeys :
            HasForm(transferMatrices[key],
                    CDiv(SideZ(FromSide[key]), SideZ(ToSide[key])))

\* C8 amended: every interface matrix is 0.5*[[1+d, 1-d],[1-d, 1+d]] with
\* d = (impedance of the key's 'to' side) / (impedance of its 'from' side).
C8_ToOverFrom ==
    envCalled =>
        /\ DOMAIN transferMatrices = TransferKeys
        /\ \A key \in TransferKeys :
              HasForm(transferMatrices[key],
                      CDiv(SideZ(ToSide[key]), SideZ(FromSide[key])))

\* the environment is set on an even stack whose three impedances all differ
C8_Witness ==
    /\ envCalled /\ N % 2 = 0
    /\ Z1 # Z2 /\ SideZ("env") # Z1 /\ SideZ("env") # Z2

\* C9: whenever the environment is set the transfer table holds exactly the
\* four entries computed from the stored environment values, and whenever the
\* frequency is set the propagation table holds exactly the two entries
\* computed from the stored angular frequency.
C9_NoStaleTables ==
    /\ envEpsr # None =>
          /\ DOMAIN transferMatrices = TransferKeys
          /\ transferMatrices["env2one"]
                = TransferMatrix(CDiv(Z1, SideZ("env")))
          /\ transferMatrices["one2two"] = TransferMatrix(CDiv(Z2, Z1))
          /\ transferMatrices["two2one"] = TransferMatrix(CDiv(Z1, Z2))
          /\ transferMatrices["last2env"]
                = TransferMatrix(CDiv(SideZ("env"), SideZ("last")))
    /\ omega # None =>
          /\ DOMAIN propagationMatrices = PropagationKeys
          /\ propagationMatrices["one"]
                = PropagationMatrix(Wavenumber(Val(omega), epsr1, mur1), d1)
          /\ propagationMatrices["two"]
                = PropagationMatrix(Wavenumber(Val(omega), epsr2, mur2), d2)

\* a setFrequency call has just replaced the tables of an earlier frequency,
\* after the environment was set
C9_Witness ==
    replaced /\ call.op = "setFrequency" /\ envCalled

\* C10 as stated: in every state after construction last is 2 for even and 1
\* for odd layerCount, and construction leaves environment and frequency unset.
C10_ParityFromConstruction ==
    /\ last = Some(Parity(N))
    /\ call.op = "create" => (envEpsr = None /\ envMur = None /\ omega = None)

\* C10 amended: construction leaves last unset together with environment and
\* frequency; last stays unset until setEnvironment is first called, and is 2
\* for even and 1 for odd layerCount in every state after that.
C10_ParityFromEnvironment ==
    /\ call.op = "create" =>
          (last = None /\ envEpsr = None /\ envMur = None /\ omega = None)
    /\ ~envCalled => last = None
    /\ envCalled => last = Some(Parity(N))

\* the frequency is set on an even stack whose environment never was
C10_Witness ==
    ~envCalled /\ freqCalled /\ N = 2 /\ last = None

====
